---- MODULE Spec2Model ----
(***************************************************************************)
(* Data block / stored data block lineage, on-demand realization through   *)
(* the conversion engine, and identifier generation.                       *)
(*                                                                         *)
(*   Spec      sequential use of the DataBlockManager                      *)
(*   SpecConc  two requests of one execution context, interleaved          *)
(*   SpecImm   attempted updates of persisted rows                         *)
(*   SpecIds   timestamp_rand_key                                          *)
(*   SpecCast  cast_to_realized_schema                                     *)
(*   SpecPath  get_conversion_path_for_sdb                                 *)
(*   SpecConv  convert_lowest_cost, with converters that may raise         *)
(*   SpecLineage  block creation, realization and aliases together         *)
(*   SpecCreate  create_data_block_from_records, with steps that may raise *)
(*   SpecGen   timestamp_rand_key, two threads step by step                *)
(*   SpecAlias  Alias rows and their lookup by name                        *)
(*   SpecRead  DataBlockManager.as_format after block creation             *)
(*   SpecInfer  schema inference from a sample of the records              *)
(*   SpecSelect  select_storage                                            *)
(*   SpecDetect  get_data_format_of_object                                 *)
(*   SpecPipe  the static extract pipes on one node state                  *)
(***************************************************************************)
EXTENDS Integers, Sequences, FiniteSets, TLC

(* ------------------------------ bounds --------------------------------- *)
MaxBlocks == 2
MaxSdbs == 4
MaxIds == 3
MaxTicks == 2
MaxFields == 2
MaxConversions == 2
MaxAliases == 3
MaxRecords == 3
MaxBatches == 2
MaxStorages == 2
MaxRuns == 6
StartSecond == 59
Burst == 99998

(* ------------------------- storages and formats ------------------------ *)
MemoryUrls == {"memory://m1", "memory://m2"}
DatabaseUrls == {"postgres://d1", "postgres://d2"}

\* StoredDataBlockMetadata.storage_url.startswith("memory:")
StartsWithMemory(url) == url \in MemoryUrls

\* Storage.from_url(url).storage_type
StorageTypeOf(url) == IF StartsWithMemory(url) THEN "DICT_MEMORY" ELSE "POSTGRES_DATABASE"

StorageTypes == {"DICT_MEMORY", "POSTGRES_DATABASE"}

MemoryFormats == {"RecordsListFormat", "DataFrameFormat", "DatabaseTableRefFormat"}
DataFormats == MemoryFormats \cup {"DatabaseTableFormat"}

StorageFormat(storage_type, data_format) ==
    [storage_type |-> storage_type, data_format |-> data_format]

StorageFormats == [storage_type : StorageTypes, data_format : DataFormats]

\* StoredDataBlockMetadata.get_storage_format
get_storage_format(sdb) == StorageFormat(StorageTypeOf(sdb.storage_url), sdb.data_format)

(* --------------------------- converter registry ------------------------ *)
FREE == 0
CHEAP == 1
EXPENSIVE == 2

MemRecords == StorageFormat("DICT_MEMORY", "RecordsListFormat")
MemFrame == StorageFormat("DICT_MEMORY", "DataFrameFormat")
MemTableRef == StorageFormat("DICT_MEMORY", "DatabaseTableRefFormat")
DbTable == StorageFormat("POSTGRES_DATABASE", "DatabaseTableFormat")

MemoryToDatabaseConverter ==
    [name |-> "MemoryToDatabaseConverter",
     supported_input_formats |-> {MemRecords},
     supported_output_formats |-> {DbTable},
     cost_level |-> EXPENSIVE]

MemoryToMemoryConverter ==
    [name |-> "MemoryToMemoryConverter",
     supported_input_formats |-> {MemRecords, MemFrame},
     supported_output_formats |-> {MemRecords, MemFrame},
     cost_level |-> CHEAP]

DatabaseToMemoryConverter ==
    [name |-> "DatabaseToMemoryConverter",
     supported_input_formats |-> {DbTable},
     supported_output_formats |-> {MemRecords, MemTableRef},
     cost_level |-> EXPENSIVE]

DatabaseToDatabaseConverter ==
    [name |-> "DatabaseToDatabaseConverter",
     supported_input_formats |-> {DbTable},
     supported_output_formats |-> {DbTable},
     cost_level |-> EXPENSIVE]

\* the registry, in registration order
get_converter_lookup ==
    << MemoryToDatabaseConverter, MemoryToMemoryConverter,
       DatabaseToMemoryConverter, DatabaseToDatabaseConverter >>

(* ------------------------------ path finder ---------------------------- *)
\* the StorageFormats some converter reads or writes
RegisteredFormats ==
    UNION { get_converter_lookup[k].supported_input_formats
              \cup get_converter_lookup[k].supported_output_formats :
            k \in DOMAIN get_converter_lookup }

\* edges of the conversion graph restricted to the available storage types
ConversionEdges(types) ==
    { [conversion |-> << t[2], t[3] >>, converter |-> t[1],
       cost_level |-> get_converter_lookup[t[1]].cost_level] :
         t \in { t \in (DOMAIN get_converter_lookup) \X RegisteredFormats \X RegisteredFormats :
                /\ t[2] \in get_converter_lookup[t[1]].supported_input_formats
                /\ t[3] \in get_converter_lookup[t[1]].supported_output_formats
                /\ t[2] # t[3]
                /\ t[2].storage_type \in types
                /\ t[3].storage_type \in types } }

NoPathCost == 0 - 1

MinOf(S) == CHOOSE x \in S : \A y \in S : x <= y

\* cost of the cheapest chain of at most k edges from v to target, or NoPathCost
RECURSIVE LowestCost(_, _, _, _)
LowestCost(v, target, edges, k) ==
    IF v = target THEN 0
    ELSE IF k = 0 THEN NoPathCost
    ELSE LET out == { e \in edges : e.conversion[1] = v }
             via == { c \in { << e.cost_level, LowestCost(e.conversion[2], target, edges, k - 1) >> :
                              e \in out } : c[2] # NoPathCost }
         IN IF via = {} THEN NoPathCost ELSE MinOf({ c[1] + c[2] : c \in via })

\* the edges of that chain; among equally cheap first edges the converter
\* registered first wins
RECURSIVE LowestCostEdges(_, _, _, _)
LowestCostEdges(v, target, edges, k) ==
    IF v = target THEN << >>
    ELSE LET best == LowestCost(v, target, edges, k)
             rest(e) == LowestCost(e.conversion[2], target, edges, k - 1)
             firsts == { e \in edges :
                           /\ e.conversion[1] = v
                           /\ rest(e) # NoPathCost
                           /\ e.cost_level + rest(e) = best }
             first == CHOOSE e \in firsts : \A f \in firsts :
                          \/ e.converter < f.converter
                          \/ e.converter = f.converter /\ rest(e) <= rest(f)
         IN << first >> \o LowestCostEdges(first.conversion[2], target, edges, k - 1)

ConversionPath(conversions, total_cost) ==
    [is_none |-> FALSE, conversions |-> conversions, total_cost |-> total_cost]

None == [is_none |-> TRUE, conversions |-> << >>, total_cost |-> 0]

MaxHops == Cardinality(RegisteredFormats) - 1

LowestCostPath(source, target, types) ==
    LET edges == ConversionEdges(types)
        cost == LowestCost(source, target, edges, MaxHops)
    IN IF cost = NoPathCost
       THEN None
       ELSE ConversionPath(LowestCostEdges(source, target, edges, MaxHops), cost)

LowestCostQueries ==
    RegisteredFormats \X RegisteredFormats \X (SUBSET StorageTypes)

\* ConverterLookup.get_lowest_cost_path for every query, computed once
\* (@@ yields an explicit table rather than a function evaluated per lookup)
LowestCostPathTable ==
    [q \in LowestCostQueries |-> LowestCostPath(q[1], q[2], q[3])] @@ << >>

Range(s) == { s[i] : i \in DOMAIN s }

get_lowest_cost_path(conversion, storages) ==
    IF conversion[1] \in RegisteredFormats /\ conversion[2] \in RegisteredFormats
    THEN LowestCostPathTable[<< conversion[1], conversion[2],
                               { StorageTypeOf(u) : u \in Range(storages) } >>]
    ELSE None

\* mutant: the lookup is asked without the restriction to the given storages
get_conversion_path_on_any_storage(sdb, target_format, storages) ==
    LET source_format == StorageFormat(StorageTypeOf(sdb.storage_url), sdb.data_format)
    IN IF source_format = target_format
       THEN ConversionPath(<< >>, 0)
       ELSE get_lowest_cost_path(<<source_format, target_format>>,
                                 << "memory://m1", "postgres://d1" >>)

\* mutant: the converter lookup is built and asked whatever the two formats are
conversion_path_always_looked_up(sdb, target_format, storages) ==
    LET source_format == StorageFormat(StorageTypeOf(sdb.storage_url), sdb.data_format)
    IN [path |-> get_lowest_cost_path(<<source_format, target_format>>, storages),
        consulted |-> TRUE]

\* get_conversion_path_for_sdb with a note of whether it went on to
\* get_converter_lookup() or returned before
conversion_path_lookup(sdb, target_format, storages) ==
    LET source_format == StorageFormat(StorageTypeOf(sdb.storage_url), sdb.data_format)
    IN IF source_format = target_format
       THEN [path |-> ConversionPath(<< >>, 0), consulted |-> FALSE]
       ELSE [path |-> get_lowest_cost_path(<<source_format, target_format>>, storages),
             consulted |-> TRUE]

get_conversion_path_for_sdb(sdb, target_format, storages) ==
    conversion_path_lookup(sdb, target_format, storages).path

(* ------------------------------- state --------------------------------- *)
VARIABLES
    blocks,        \* DataBlockMetadata rows, in insertion order; the id is the position
    sdbs,          \* StoredDataBlockMetadata rows, in insertion order; the id is the position
    call,          \* the latest get_or_create_local_stored_data_block call and its outcome
    req,           \* SpecConc: the request each thread is in the middle of
    upd,           \* SpecImm: the latest attempted update of a persisted row
    clock,         \* SpecIds: utcnow(), in seconds
    id_counter,    \* SpecIds: orm.id_counter
    last_second,   \* SpecIds: orm.last_second
    ids,           \* SpecIds: the keys timestamp_rand_key has returned, oldest first
    cast,          \* SpecCast: the latest cast_to_realized_schema call and its outcome
    found,         \* SpecPath: the latest get_conversion_path_for_sdb call and its outcome
    conv,          \* SpecConv: the latest convert_lowest_cost call and its outcome
    creation,      \* SpecCreate: the latest create_data_block_from_records call and its outcome
    payloads,      \* the records stored in local memory, by StoredDataBlock id
    aliases,       \* SpecLineage: what each alias name is bound to
    alias_rows,    \* SpecAlias: the Alias rows of the metadata session, oldest first
    read,          \* SpecRead: the latest DataBlockManager.as_format call and its outcome
    query,         \* the latest call of a lookup that changes nothing, and what it returned
    gen,           \* SpecGen: where each thread is inside timestamp_rand_key
    pipe           \* SpecPipe: the node state of a static extract pipe and its latest run

vars == << blocks, sdbs, call, req, upd, clock, id_counter, last_second, ids,
           cast, found, conv, creation, payloads, aliases, alias_rows, read, query, gen, pipe >>

(* ------------------------- execution contexts -------------------------- *)
\* ExecutionContext: local_memory_storage and the configured storages
StorageLists ==
    { << >>, << "postgres://d1" >>, << "memory://m1", "postgres://d2" >> }

Contexts == [local_memory_storage : MemoryUrls, storages : StorageLists]

\* ExecutionContext.all_storages
all_storages(ctx) == << ctx.local_memory_storage >> \o ctx.storages

(* --------------------------- conversion executor ----------------------- *)
NoStorage == "no matching storage"

RECURSIVE FirstOfType(_, _)
FirstOfType(storages, stype) ==
    IF storages = << >> THEN NoStorage
    ELSE IF StorageTypeOf(Head(storages)) = stype THEN Head(storages)
    ELSE FirstOfType(Tail(storages), stype)

\* mutant: local memory is looked up among the configured storages like any other
select_storage_by_lookup(local_memory_storage, storages, storage_format) ==
    FirstOfType(storages, storage_format.storage_type)

\* mutant: the last configured storage of the type is taken, not the first
select_storage_last_of_type(local_memory_storage, storages, storage_format) ==
    LET stype == storage_format.storage_type
        of_type == SelectSeq(storages, LAMBDA storage : StorageTypeOf(storage) = stype)
    IN IF stype = "DICT_MEMORY" THEN local_memory_storage
       ELSE IF of_type = << >> THEN NoStorage
       ELSE of_type[Len(of_type)]

select_storage(local_memory_storage, storages, storage_format) ==
    LET stype == storage_format.storage_type
    IN IF stype = "DICT_MEMORY" THEN local_memory_storage
       ELSE FirstOfType(storages, stype)

\* Converter.convert: a new StoredDataBlock of the same data block on the given
\* storage in the given format, added to the metadata session
Converter_convert(rows, in_sdb, storage, data_format) ==
    Append(rows, [data_block_id |-> rows[in_sdb].data_block_id,
                  storage_url |-> storage,
                  data_format |-> data_format])

\* the loop of convert_sdb: rows so far, the current StoredDataBlock, the
\* converter invocations so far; the converters in failing raise when invoked
\* and record nothing
RECURSIVE convert_sdb_loop(_, _, _, _, _, _)
convert_sdb_loop(ctx, rows, next_sdb, conversions, invoked, failing) ==
    IF conversions = << >>
    THEN [status |-> "returned", ret |-> next_sdb, rows |-> rows, invoked |-> invoked,
          error |-> "none"]
    ELSE LET conversion_edge == Head(conversions)
             target_storage_format == conversion_edge.conversion[2]
             storage == select_storage(ctx.local_memory_storage, ctx.storages,
                                       target_storage_format)
             invocation == [converter |-> conversion_edge.converter,
                            in_sdb |-> next_sdb,
                            storage |-> storage,
                            data_format |-> target_storage_format.data_format]
         IN IF storage = NoStorage
            THEN [status |-> "raised", ret |-> 0, rows |-> rows, invoked |-> invoked,
                  error |-> "Exception"]
            ELSE IF conversion_edge.converter \in failing
            THEN [status |-> "raised", ret |-> 0, rows |-> rows,
                  invoked |-> Append(invoked, invocation), error |-> "ConverterError"]
            ELSE convert_sdb_loop(ctx,
                     Converter_convert(rows, next_sdb, storage,
                                       target_storage_format.data_format),
                     Len(rows) + 1, Tail(conversions),
                     Append(invoked, invocation), failing)

\* mutant: the StoredDataBlock passed in is returned instead of the last one made
convert_sdb_returning_input(ctx, rows, sdb, conversion_path) ==
    LET out == convert_sdb_loop(ctx, rows, sdb, conversion_path.conversions, << >>, {})
    IN [out EXCEPT !.ret = IF out.status = "returned" THEN sdb ELSE 0]

\* mutant: the conversion moves the StoredDataBlock it was given instead of
\* leaving it as it was
convert_sdb_moving_source(ctx, rows, sdb, conversion_path) ==
    LET out == convert_sdb_loop(ctx, rows, sdb, conversion_path.conversions, << >>, {})
    IN IF out.status = "returned" /\ out.ret # sdb
       THEN [out EXCEPT !.rows[sdb].storage_url = out.rows[out.ret].storage_url,
                        !.rows[sdb].data_format = out.rows[out.ret].data_format]
       ELSE out

\* convert_sdb when every converter succeeds
convert_sdb(ctx, rows, sdb, conversion_path) ==
    convert_sdb_loop(ctx, rows, sdb, conversion_path.conversions, << >>, {})

\* mutant: a converter that raises is skipped and the loop goes on with the
\* next edge
RECURSIVE convert_sdb_skipping_failures(_, _, _, _, _)
convert_sdb_skipping_failures(ctx, rows, sdb, conversion_path, failing) ==
    IF conversion_path.conversions = << >>
    THEN [status |-> "returned", ret |-> sdb, rows |-> rows, invoked |-> << >>,
          error |-> "none"]
    ELSE LET edge == Head(conversion_path.conversions)
             rest == [conversion_path EXCEPT !.conversions = Tail(conversion_path.conversions)]
             step == convert_sdb_loop(ctx, rows, sdb, << edge >>, << >>, {})
         IN IF edge.converter \in failing
            THEN convert_sdb_skipping_failures(ctx, rows, sdb, rest, failing)
            ELSE convert_sdb_skipping_failures(ctx, step.rows, step.ret, rest, failing)

\* mutant: every converter is handed the StoredDataBlock the call was given
convert_sdb_feeding_input(ctx, rows, sdb, conversion_path, failing) ==
    LET out == convert_sdb_loop(ctx, rows, sdb, conversion_path.conversions, << >>, failing)
    IN [out EXCEPT !.invoked = [i \in DOMAIN out.invoked |->
                                  [out.invoked[i] EXCEPT !.in_sdb = sdb]]]

\* convert_sdb when the converters in failing raise
convert_sdb_with(ctx, rows, sdb, conversion_path, failing) ==
    convert_sdb_loop(ctx, rows, sdb, conversion_path.conversions, << >>, failing)

\* a bare raise with no exception being handled
RuntimeError(rows) ==
    [status |-> "raised", ret |-> 0, rows |-> rows, invoked |-> << >>,
     error |-> "RuntimeError"]

convert_lowest_cost_path(ctx, rows, sdb, target_storage, target_format) ==
    get_conversion_path_for_sdb(rows[sdb],
                                StorageFormat(StorageTypeOf(target_storage), target_format),
                                all_storages(ctx))

convert_lowest_cost(ctx, rows, sdb, target_storage, target_format, failing) ==
    IF convert_lowest_cost_path(ctx, rows, sdb, target_storage, target_format).is_none
    THEN RuntimeError(rows)
    ELSE convert_sdb_with(ctx, rows, sdb,
             convert_lowest_cost_path(ctx, rows, sdb, target_storage, target_format),
             failing)

(* --------------------------- DataBlockManager -------------------------- *)
\* the query of StoredDataBlocks of the data block, without the memory
\* StoredDataBlocks of another runtime; ids in row order
RECURSIVE existing_sdbs_from(_, _, _, _)
existing_sdbs_from(ctx, rows, data_block, i) ==
    IF i > Len(rows) THEN << >>
    ELSE LET rest == existing_sdbs_from(ctx, rows, data_block, i + 1)
         IN IF /\ rows[i].data_block_id = data_block
               /\ \/ ~StartsWithMemory(rows[i].storage_url)
                  \/ rows[i].storage_url = ctx.local_memory_storage
            THEN << i >> \o rest
            ELSE rest

\* mutant: the memory StoredDataBlocks of other runtimes are fetched too
existing_sdbs_of_any_runtime(ctx, rows, data_block) ==
    SelectSeq([i \in 1..Len(rows) |-> i], LAMBDA i : rows[i].data_block_id = data_block)

existing_sdbs(ctx, rows, data_block) == existing_sdbs_from(ctx, rows, data_block, 1)

target_storage_format(ctx, target_format) ==
    StorageFormat(StorageTypeOf(ctx.local_memory_storage), target_format)

\* the loop over existing_sdbs: returns at the first StoredDataBlock already
\* in the target storage format, otherwise collects (total_cost, path, sdb)
RECURSIVE eligible_conversion_paths(_, _, _, _, _)
eligible_conversion_paths(ctx, rows, existing, tsf, acc) ==
    IF existing = << >> THEN [found |-> 0, eligible |-> acc]
    ELSE LET sdb == Head(existing)
             source_storage_format == get_storage_format(rows[sdb])
             conversion_path == get_conversion_path_for_sdb(rows[sdb], tsf, all_storages(ctx))
         IN IF source_storage_format = tsf
            THEN [found |-> sdb, eligible |-> acc]
            ELSE eligible_conversion_paths(ctx, rows, Tail(existing), tsf,
                     IF conversion_path # None
                     THEN Append(acc, << conversion_path.total_cost, conversion_path, sdb >>)
                     ELSE acc)

\* mutant: a StoredDataBlock already in the target storage format is passed over
RECURSIVE eligible_paths_skipping(_, _, _, _, _)
eligible_paths_skipping(ctx, rows, existing, tsf, acc) ==
    IF existing = << >> THEN [found |-> 0, eligible |-> acc]
    ELSE LET sdb == Head(existing)
             conversion_path == get_conversion_path_for_sdb(rows[sdb], tsf, all_storages(ctx))
         IN eligible_paths_skipping(ctx, rows, Tail(existing), tsf,
                IF get_storage_format(rows[sdb]) # tsf /\ conversion_path # None
                THEN Append(acc, << conversion_path.total_cost, conversion_path, sdb >>)
                ELSE acc)

collect_skipping(ctx, rows, existing, tsf) ==
    eligible_paths_skipping(ctx, rows, existing, tsf, << >>)

\* the loop of get_or_create_local_stored_data_block
collect_conversion_paths(ctx, rows, existing, tsf) ==
    eligible_conversion_paths(ctx, rows, existing, tsf, << >>)

\* min(eligible_conversion_paths, key=lambda x: x[0]): the first of the minimal ones
RECURSIVE py_min(_, _)
py_min(seq, best) ==
    IF seq = << >> THEN best
    ELSE py_min(Tail(seq), IF Head(seq)[1] < best[1] THEN Head(seq) ELSE best)

\* the steps of get_or_create_local_stored_data_block up to the choice of the
\* conversion to run
choose_conversion(looped) ==
    IF looped.found # 0
    THEN [kind |-> "existing", in_sdb |-> looped.found, conversion_path |-> None]
    ELSE IF looped.eligible = << >>
    THEN [kind |-> "raise", in_sdb |-> 0, conversion_path |-> None]
    ELSE LET m == py_min(Tail(looped.eligible), Head(looped.eligible))
         IN [kind |-> "convert", in_sdb |-> m[3], conversion_path |-> m[2]]

plan_conversion(ctx, rows, data_block, target_format) ==
    choose_conversion(collect_conversion_paths(ctx, rows,
                                               existing_sdbs(ctx, rows, data_block),
                                               target_storage_format(ctx, target_format)))

\* the rest of it: return the existing one, raise NotImplementedError, or convert
\* an outcome together with the choice it came from
outcome_of(plan, out) ==
    [status |-> out.status, ret |-> out.ret, rows |-> out.rows,
     invoked |-> out.invoked, in_sdb |-> plan.in_sdb, kind |-> plan.kind]

run_plan(ctx, rows, plan) ==
    IF plan.kind = "existing"
    THEN outcome_of(plan, [status |-> "returned", ret |-> plan.in_sdb, rows |-> rows,
                           invoked |-> << >>])
    ELSE IF plan.kind = "raise"
    THEN outcome_of(plan, [status |-> "raised", ret |-> 0, rows |-> rows,
                           invoked |-> << >>])
    ELSE outcome_of(plan, convert_sdb(ctx, rows, plan.in_sdb, plan.conversion_path))

get_or_create_local_stored_data_block(ctx, rows, data_block, target_format) ==
    run_plan(ctx, rows, plan_conversion(ctx, rows, data_block, target_format))

(* ------------------------------ block creation ------------------------- *)
\* what create_data_block_from_records is given: the records object (its
\* format and record count) and the declared schema, "None" when absent
\* the records object itself stands for its content
RecordsObjects == {"records_a", "records_b"}
PayloadsOf(objects) ==
    [data_format : MemoryFormats, record_count : {2}, records_object : objects]
Payloads == PayloadsOf({"records_a"})
DeclaredSchemas == {"None", "TestSchema1"}

is_any(schema_key) == schema_key = "Any"

\* data_format.infer_schema_from_records: the key of the generated schema
infer_schema_from_records(records) == "AutoSchema"

\* the rows and the stored records of a call that reaches its return
created_rows(local_storage, records, expected_schema_key, realized_schema_key, created_by_node_key) ==
    [blocks |-> Append(blocks, [expected_schema_key |-> expected_schema_key,
                                realized_schema_key |-> realized_schema_key,
                                record_count |-> records.record_count,
                                created_by_node_key |-> created_by_node_key]),
     sdbs |-> Append(sdbs, [data_block_id |-> Len(blocks) + 1,
                            storage_url |-> local_storage,
                            data_format |-> records.data_format]),
     payloads |-> Append(payloads, [stored_data_block_id |-> Len(sdbs) + 1,
                                    storage_url |-> local_storage,
                                    data_format |-> records.data_format,
                                    record_count |-> records.record_count,
                                    records_object |-> records.records_object])]

\* mutant: the realized schema is inferred from the records whatever was declared
create_always_inferring(local_storage, records, expected_schema, created_by_node_key) ==
    LET expected_schema_key == IF expected_schema = "None" THEN "Any" ELSE expected_schema
        made == created_rows(local_storage, records, expected_schema_key,
                             infer_schema_from_records(records), created_by_node_key)
    IN [blocks |-> made.blocks, sdbs |-> made.sdbs, payloads |-> made.payloads,
        inferred |-> TRUE]

create_data_block_from_records(local_storage, records, expected_schema, created_by_node_key) ==
    LET expected_schema_key == IF expected_schema = "None" THEN "Any" ELSE expected_schema
        realized_schema_key == IF is_any(expected_schema_key)
                               THEN infer_schema_from_records(records)
                               ELSE expected_schema_key
        made == created_rows(local_storage, records, expected_schema_key,
                             realized_schema_key, created_by_node_key)
    IN [blocks |-> made.blocks, sdbs |-> made.sdbs, payloads |-> made.payloads,
        inferred |-> is_any(expected_schema_key)]

(* -------------------------------- actions ------------------------------ *)
NoCall ==
    [status |-> "none", ctx |-> [local_memory_storage |-> "memory://m1", storages |-> << >>],
     data_block |-> 0, target_format |-> "RecordsListFormat", kind |-> "none",
     ret |-> 0, in_sdb |-> 0, invoked |-> << >>, before |-> 0, created |-> 0,
     again |-> FALSE, prev_ret |-> 0]

Threads == {1, 2}

NoPlan == [kind |-> "none", in_sdb |-> 0, conversion_path |-> None]

Idle == [pc |-> "idle", data_block |-> 0, target_format |-> "RecordsListFormat",
         plan |-> NoPlan, seen |-> 0, ran |-> FALSE]

NoUpdate == [status |-> "none", model |-> "none", id |-> 0, field |-> "none"]

AliasNames == { "node_output" }

NoAlias == [data_block_id |-> 0, stored_data_block_id |-> 0]

NoCast == [status |-> "none"]
NoFound == [status |-> "none"]
NoConv == [status |-> "none", calls |-> 0]
NoCreation == [status |-> "none"]
NoRead == [status |-> "none"]
NoQuery == [status |-> "none"]
\* no thread is inside timestamp_rand_key
NoGen ==
    [t \in Threads |-> [pc |-> "idle", curr_second |-> << >>, differs |-> FALSE,
                        loaded |-> 0, key |-> << >>, reset_behind |-> FALSE]]
\* a node that has not run yet: no pipe bound, nothing in its state
NoPipe == [name |-> "none", state |-> [extracted |-> FALSE], log |-> << >>]

Init ==
    /\ blocks = << >>
    /\ sdbs = << >>
    /\ call = NoCall
    /\ req = [t \in Threads |-> Idle]
    /\ upd = NoUpdate
    /\ clock = StartSecond
    /\ id_counter = 0
    /\ last_second = << >>
    /\ ids = << >>
    /\ cast = NoCast
    /\ found = NoFound
    /\ conv = NoConv
    /\ creation = NoCreation
    /\ payloads = << >>
    /\ aliases = [alias \in AliasNames |-> NoAlias]
    /\ alias_rows = << >>
    /\ read = NoRead
    /\ query = NoQuery
    /\ gen = NoGen
    /\ pipe = NoPipe

CreateBlockWith(declared, given) ==
    \E local_storage \in MemoryUrls, records \in given, expected_schema \in declared :
        LET made == create_data_block_from_records(local_storage, records, expected_schema, "node")
        IN /\ Len(blocks) < MaxBlocks
           /\ Len(sdbs) < MaxSdbs
           /\ blocks' = made.blocks
           /\ sdbs' = made.sdbs
           /\ payloads' = made.payloads
           /\ UNCHANGED << call, req, upd, clock, id_counter, last_second, ids,
                           cast, found, conv, creation, aliases, alias_rows, read, query, gen, pipe >>

\* DataBlockManager(ctx, data_block).get_or_create_local_stored_data_block(target_format)
GetOrCreate ==
    \E ctx \in Contexts, data_block \in 1..Len(blocks), target_format \in DataFormats :
        \E out \in { get_or_create_local_stored_data_block(ctx, sdbs, data_block, target_format) },
           again \in { /\ call.status = "returned"
                       /\ call.ctx = ctx
                       /\ call.data_block = data_block
                       /\ call.target_format = target_format } :
           /\ Len(out.rows) <= MaxSdbs
           /\ sdbs' = out.rows
           /\ call' = [status |-> out.status, ctx |-> ctx, data_block |-> data_block,
                       target_format |-> target_format, kind |-> out.kind,
                       ret |-> out.ret, in_sdb |-> out.in_sdb, invoked |-> out.invoked,
                       before |-> Len(sdbs), created |-> Len(out.rows) - Len(sdbs),
                       again |-> again, prev_ret |-> IF again THEN call.ret ELSE 0]
           /\ UNCHANGED << blocks, req, upd, clock, id_counter, last_second, ids, cast, found, conv, creation, payloads, aliases, alias_rows, read, query, gen, pipe >>

CreateBlockFrom(declared) == CreateBlockWith(declared, Payloads)

\* a producing step without a declared schema
CreateBlock == CreateBlockFrom({"None"})

Next == CreateBlock \/ GetOrCreate

Spec == Init /\ [][Next]_vars

(* ----------------------- interleaved requests --------------------------- *)
\* the execution context the two threads share
ConcContext == [local_memory_storage |-> "memory://m1", storages |-> << "postgres://d1" >>]

\* the first half of get_or_create_local_stored_data_block: the query of the
\* existing StoredDataBlocks and the choice of what to do
Begin(t) ==
    \E data_block \in 1..Len(blocks), target_format \in DataFormats :
        /\ req[t].pc \in {"idle", "done"}
        /\ req' = [req EXCEPT ![t] =
                     [pc |-> "planned", data_block |-> data_block,
                      target_format |-> target_format,
                      plan |-> plan_conversion(ConcContext, sdbs, data_block, target_format),
                      seen |-> Len(sdbs), ran |-> FALSE]]
        /\ UNCHANGED << blocks, sdbs, call, upd, clock, id_counter, last_second, ids, cast, found, conv, creation, payloads, aliases, alias_rows, read, query, gen, pipe >>

\* the second half: return, raise or run convert_sdb on what was chosen
Finish(t) ==
    \E out \in { run_plan(ConcContext, sdbs, req[t].plan) } :
       /\ req[t].pc = "planned"
       /\ Len(out.rows) <= MaxSdbs
       /\ sdbs' = out.rows
       /\ req' = [req EXCEPT ![t].pc = "done", ![t].ran = (out.invoked # << >>)]
       /\ UNCHANGED << blocks, call, upd, clock, id_counter, last_second, ids, cast, found, conv, creation, payloads, aliases, alias_rows, read, query, gen, pipe >>

NextConc == CreateBlock \/ (\E t \in Threads : Begin(t)) \/ (\E t \in Threads : Finish(t))

SpecConc == Init /\ [][NextConc]_vars

(* ------------------------ updates of persisted rows -------------------- *)
\* the models a before_update immutability listener is registered for
ListenedModelsWithoutStored == {"DataBlockMetadata"}

ListenedModels == {"DataBlockMetadata", "StoredDataBlockMetadata"}

\* immutability_update_listener: rejects the update of the row
immutability_update_listener(model) == "raised"

\* the session flushes a changed row: the before_update listeners of its model run
\* first, and the UPDATE is issued only if none raises
flush_update(model, rows, id, field, value) ==
    IF model \in ListenedModels /\ immutability_update_listener(model) = "raised"
    THEN [status |-> "raised", rows |-> rows]
    ELSE [status |-> "updated", rows |-> [rows EXCEPT ![id] = [@ EXCEPT ![field] = value]]]

DataBlockFields ==
    [record_count |-> {2, 3},
     expected_schema_key |-> {"Any", "TestSchema1"},
     realized_schema_key |-> {"AutoSchema", "TestSchema1"},
     created_by_node_key |-> {"node", "other"}]

StoredDataBlockFields ==
    [storage_url |-> MemoryUrls \cup DatabaseUrls,
     data_format |-> DataFormats,
     data_block_id |-> 1..MaxBlocks]

\* a producing step with or without a declared schema
CreateDeclaredBlock == CreateBlockFrom(DeclaredSchemas)

UpdateDataBlock ==
    \E id \in 1..Len(blocks), field \in DOMAIN DataBlockFields :
        \E value \in DataBlockFields[field] :
            LET out == flush_update("DataBlockMetadata", blocks, id, field, value)
            IN /\ blocks' = out.rows
               /\ upd' = [status |-> out.status, model |-> "DataBlockMetadata", id |-> id,
                          field |-> field, value |-> value, before |-> blocks[id]]
               /\ UNCHANGED << sdbs, call, req, clock, id_counter, last_second, ids, cast, found, conv, creation, payloads, aliases, alias_rows, read, query, gen, pipe >>

UpdateStoredDataBlock ==
    \E id \in 1..Len(sdbs), field \in DOMAIN StoredDataBlockFields :
        \E value \in StoredDataBlockFields[field] :
            LET out == flush_update("StoredDataBlockMetadata", sdbs, id, field, value)
            IN /\ sdbs' = out.rows
               /\ upd' = [status |-> out.status, model |-> "StoredDataBlockMetadata", id |-> id,
                          field |-> field, value |-> value, before |-> sdbs[id]]
               /\ UNCHANGED << blocks, call, req, clock, id_counter, last_second, ids, cast, found, conv, creation, payloads, aliases, alias_rows, read, query, gen, pipe >>

NextImm == CreateDeclaredBlock \/ UpdateDataBlock \/ UpdateStoredDataBlock

SpecImm == Init /\ [][NextImm]_vars

(* --------------------------- timestamp_rand_key ------------------------ *)
\* strings are sequences of character codes
Digit(d) == 48 + d
Underscore == 95

CounterWidth == 5

RECURSIVE Decimal(_)
Decimal(n) == IF n < 10 THEN << Digit(n) >> ELSE Append(Decimal(n \div 10), Digit(n % 10))

RECURSIVE ZeroPad(_, _)
ZeroPad(str, width) == IF Len(str) >= width THEN str ELSE ZeroPad(<< Digit(0) >> \o str, width)

\* f"{n:05}": at least five digits, zero filled
format_counter(n) == ZeroPad(Decimal(n), CounterWidth)

\* utcnow().strftime("%y%m%d%H%M%S") of the clock, seconds since midnight of 2026-11-02
strftime(t) ==
    << Digit(2), Digit(6), Digit(1), Digit(1), Digit(0), Digit(2) >>
      \o ZeroPad(Decimal(t \div 3600), 2)
      \o ZeroPad(Decimal((t \div 60) % 60), 2)
      \o ZeroPad(Decimal(t % 60), 2)

\* rand_str(3).lower()
RandSuffixes == { << 97, 97, 97 >>, << 122, 48, 113 >> }

timestamp_rand_key(now, counter, last, rand) ==
    LET curr_second == strftime(now)
        reset == IF last # curr_second THEN 0 ELSE counter
    IN [id_counter |-> reset + 1,
        last_second |-> curr_second,
        key |-> curr_second \o format_counter(reset + 1) \o << Underscore >> \o rand]

Tick ==
    /\ clock < StartSecond + MaxTicks
    /\ clock' = clock + 1
    /\ UNCHANGED << blocks, sdbs, call, req, upd, id_counter, last_second, ids, cast, found, conv, creation, payloads, aliases, alias_rows, read, query, gen, pipe >>

TimestampRandKey ==
    \E rand \in RandSuffixes :
        LET out == timestamp_rand_key(clock, id_counter, last_second, rand)
        IN /\ Len(ids) < MaxIds
           /\ id_counter' = out.id_counter
           /\ last_second' = out.last_second
           /\ ids' = Append(ids, [key |-> out.key, second |-> clock])
           /\ UNCHANGED << blocks, sdbs, call, req, upd, clock, cast, found, conv, creation, payloads, aliases, alias_rows, read, query, gen, pipe >>

\* Burst calls of timestamp_rand_key within the current second, keys not recorded
TimestampRandKeyBurst ==
    /\ id_counter < Burst
    /\ id_counter' = (IF last_second # strftime(clock) THEN 0 ELSE id_counter) + Burst
    /\ last_second' = strftime(clock)
    /\ UNCHANGED << blocks, sdbs, call, req, upd, clock, ids, cast, found, conv, creation, payloads, aliases, alias_rows, read, query, gen, pipe >>

NextIds == Tick \/ TimestampRandKey \/ TimestampRandKeyBurst

SpecIds == Init /\ [][NextIds]_vars

RECURSIVE LexLess(_, _)
LexLess(a, b) ==
    IF b = << >> THEN FALSE
    ELSE IF a = << >> THEN TRUE
    ELSE IF Head(a) # Head(b) THEN Head(a) < Head(b)
    ELSE LexLess(Tail(a), Tail(b))

(* ------------------ timestamp_rand_key, thread by thread ---------------- *)
\* the function has no lock: between the reads and writes of the two globals
\* of one thread the other thread may run. What is left unchanged by all steps:
OutsideOfGen ==
    << blocks, sdbs, call, req, upd, clock, ids, cast, found, conv, creation, payloads,
       aliases, alias_rows, read, query, pipe >>

\* curr_second = utcnow().strftime(...)
ReadClock(t) ==
    /\ gen[t].pc = "idle"
    /\ gen' = [gen EXCEPT ![t].pc = "compare", ![t].curr_second = strftime(clock)]
    /\ UNCHANGED << id_counter, last_second >>
    /\ UNCHANGED OutsideOfGen

\* if last_second != curr_second: the read of last_second and the test
CompareSecond(t) ==
    /\ gen[t].pc = "compare"
    /\ gen' = [gen EXCEPT ![t].pc = "reset",
                          ![t].differs = (last_second # gen[t].curr_second)]
    /\ UNCHANGED << id_counter, last_second >>
    /\ UNCHANGED OutsideOfGen

\* id_counter = 0, when the test held
ResetCounter(t) ==
    /\ gen[t].pc = "reset"
    /\ id_counter' = IF gen[t].differs THEN 0 ELSE id_counter
    /\ gen' = [gen EXCEPT ![t].pc = "set_last",
                          ![t].reset_behind = /\ gen[t].differs
                                              /\ last_second # << >>
                                              /\ LexLess(gen[t].curr_second, last_second)]
    /\ UNCHANGED last_second
    /\ UNCHANGED OutsideOfGen

\* last_second = curr_second
SetLastSecond(t) ==
    /\ gen[t].pc = "set_last"
    /\ last_second' = gen[t].curr_second
    /\ gen' = [gen EXCEPT ![t].pc = "load"]
    /\ UNCHANGED id_counter
    /\ UNCHANGED OutsideOfGen

\* id_counter += 1, the read of the global
LoadCounter(t) ==
    /\ gen[t].pc = "load"
    /\ gen' = [gen EXCEPT ![t].pc = "store", ![t].loaded = id_counter]
    /\ UNCHANGED << id_counter, last_second >>
    /\ UNCHANGED OutsideOfGen

\* id_counter += 1, the write of the global
StoreCounter(t) ==
    /\ gen[t].pc = "store"
    /\ id_counter' = gen[t].loaded + 1
    /\ gen' = [gen EXCEPT ![t].pc = "format"]
    /\ UNCHANGED last_second
    /\ UNCHANGED OutsideOfGen

\* return f"{curr_second}{id_counter:05}_{rand_str(3).lower()}": the global is
\* read once more
FormatKey(t) ==
    /\ gen[t].pc = "format"
    /\ \E rand \in RandSuffixes :
          gen' = [gen EXCEPT ![t].pc = "done",
                             ![t].key = gen[t].curr_second \o format_counter(id_counter)
                                          \o << Underscore >> \o rand]
    /\ UNCHANGED << id_counter, last_second >>
    /\ UNCHANGED OutsideOfGen

NextGen ==
    \/ Tick
    \/ \E t \in Threads : ReadClock(t)
    \/ \E t \in Threads : CompareSecond(t)
    \/ \E t \in Threads : ResetCounter(t)
    \/ \E t \in Threads : SetLastSecond(t)
    \/ \E t \in Threads : LoadCounter(t)
    \/ \E t \in Threads : StoreCounter(t)
    \/ \E t \in Threads : FormatKey(t)

SpecGen == Init /\ [][NextGen]_vars

(* ----------------------------- schema casting -------------------------- *)
\* field types are strings, kept as sequences of characters
Integer == << "I", "n", "t", "e", "g", "e", "r" >>
Unicode == << "U", "n", "i", "c", "o", "d", "e" >>
Unicode64 == Unicode \o << "(", "6", "4", ")" >>
Unicode32 == Unicode \o << "(", "3", "2", ")" >>

FieldTypes == { Integer, Unicode64, Unicode32 }
FieldNames == { "id", "name", "extra" }
Fields == [name : FieldNames, field_type : FieldTypes]

\* ObjectSchema: a key and an ordered list of fields with distinct names
FieldLists ==
    { fs \in UNION { [1..n -> Fields] : n \in 0..MaxFields } :
        \A i, j \in DOMAIN fs : fs[i].name = fs[j].name => i = j }

ObjectSchemas(key) == { [key |-> key, fields |-> fs] : fs \in FieldLists }

\* CastToSchemaLevel
NONE == 0
SOFT == 1
HARD == 2
CastToSchemaLevel == { NONE, SOFT, HARD }

\* ObjectSchema.field_names
field_names(schema) == [i \in DOMAIN schema.fields |-> schema.fields[i].name]

\* ObjectSchema.get_field raises NameError when no field has the name
has_field(schema, name) == \E i \in DOMAIN schema.fields : schema.fields[i].name = name

get_field(schema, name) ==
    schema.fields[MinOf({ i \in DOMAIN schema.fields : schema.fields[i].name = name })]

\* ft.split("(")[0]
split_paren_first(ft) ==
    IF \E i \in DOMAIN ft : ft[i] = "("
    THEN SubSeq(ft, 1, MinOf({ i \in DOMAIN ft : ft[i] = "(" }) - 1)
    ELSE ft

\* mutant: the field types are compared with their parameters
is_same_fieldtype(ft1, ft2) == ft1 = ft2

is_same_fieldtype_class(ft1, ft2) == split_paren_first(ft1) = split_paren_first(ft2)

is_strict_field_match(f1, f2) ==
    is_same_fieldtype_class(f1.field_type, f2.field_type) /\ f1.name = f2.name

is_strict_schema_match(schema1, schema2) ==
    IF Range(field_names(schema1)) # Range(field_names(schema2))
    THEN FALSE
    ELSE \A i \in DOMAIN schema1.fields :
            is_strict_field_match(schema1.fields[i],
                                  get_field(schema2, schema1.fields[i].name))

has_subset_fields(sub, supr) == Range(field_names(sub)) \subseteq Range(field_names(supr))

\* mutant: no field definition is taken from the other schema
keep_field_definitions(schema, update_with_schema) == schema

update_matching_field_definitions(schema, update_with_schema) ==
    [schema EXCEPT !.fields =
        [i \in DOMAIN schema.fields |->
            IF has_field(update_with_schema, schema.fields[i].name)
            THEN get_field(update_with_schema, schema.fields[i].name)
            ELSE schema.fields[i]]]

NoSchema == [key |-> "none", fields |-> << >>]
NoError == [type |-> "none", inferred_columns |-> << >>, nominal_columns |-> << >>]

cast_returns(schema) == [status |-> "returned", schema |-> schema, error |-> NoError]

SchemaTypeError(inferred_schema, nominal_schema) ==
    [status |-> "raised", schema |-> NoSchema,
     error |-> [type |-> "SchemaTypeError",
                inferred_columns |-> field_names(inferred_schema),
                nominal_columns |-> field_names(nominal_schema)]]

\* mutant: the subset case keeps the inferred fields at HARD as well
cast_keeping_extra_fields(inferred_schema, nominal_schema, cast_level) ==
    IF is_strict_schema_match(inferred_schema, nominal_schema)
    THEN cast_returns(nominal_schema)
    ELSE IF has_subset_fields(nominal_schema, inferred_schema)
    THEN cast_returns(update_matching_field_definitions(inferred_schema, nominal_schema))
    ELSE SchemaTypeError(inferred_schema, nominal_schema)

\* mutant: level NONE enforces nothing and hands back the inferred schema
cast_unenforced_at_none(inferred_schema, nominal_schema, cast_level) ==
    IF is_strict_schema_match(inferred_schema, nominal_schema)
    THEN cast_returns(nominal_schema)
    ELSE IF has_subset_fields(nominal_schema, inferred_schema)
    THEN IF cast_level < HARD
         THEN cast_returns(update_matching_field_definitions(inferred_schema, nominal_schema))
         ELSE cast_returns(nominal_schema)
    ELSE IF cast_level > NONE
    THEN SchemaTypeError(inferred_schema, nominal_schema)
    ELSE cast_returns(inferred_schema)

cast_to_realized_schema(inferred_schema, nominal_schema, cast_level) ==
    IF is_strict_schema_match(inferred_schema, nominal_schema)
    THEN cast_returns(nominal_schema)
    ELSE IF has_subset_fields(nominal_schema, inferred_schema)
    THEN IF cast_level < HARD
         THEN cast_returns(update_matching_field_definitions(inferred_schema, nominal_schema))
         ELSE cast_returns(nominal_schema)
    ELSE IF cast_level >= NONE
    THEN SchemaTypeError(inferred_schema, nominal_schema)
    ELSE cast_returns(inferred_schema)

CastToRealizedSchema ==
    \E inferred_schema \in ObjectSchemas("Inferred"),
       nominal_schema \in ObjectSchemas("Nominal"),
       cast_level \in CastToSchemaLevel :
        \E out \in { cast_to_realized_schema(inferred_schema, nominal_schema, cast_level) } :
           /\ cast.status = "none"
           /\ cast' = [status |-> out.status, schema |-> out.schema, error |-> out.error,
                       inferred_schema |-> inferred_schema,
                       nominal_schema |-> nominal_schema,
                       cast_level |-> cast_level]
           /\ UNCHANGED << blocks, sdbs, call, req, upd, clock, id_counter, last_second, ids,
                           found, conv, creation, payloads, aliases, alias_rows, read, query, gen, pipe >>

NextCast == CastToRealizedSchema

SpecCast == Init /\ [][NextCast]_vars

(* --------------------------- path lookup alone ------------------------- *)
\* the storages a lookup may be given: none, memory only, database only, both
PathStorageLists ==
    { << >>, << "memory://m1" >>, << "postgres://d1" >>,
      << "memory://m1", "postgres://d1" >> }

PathSdbs ==
    [data_block_id : {1}, storage_url : MemoryUrls \cup DatabaseUrls, data_format : DataFormats]

GetConversionPath ==
    \E sdb \in PathSdbs, target_format \in StorageFormats, storages \in PathStorageLists :
        /\ found.status = "none"
        /\ found' = [status |-> "called", sdb |-> sdb, target_format |-> target_format,
                     storages |-> storages,
                     path |-> get_conversion_path_for_sdb(sdb, target_format, storages),
                     consulted |-> conversion_path_lookup(sdb, target_format,
                                                          storages).consulted]
        /\ UNCHANGED << blocks, sdbs, call, req, upd, clock, id_counter, last_second, ids,
                        cast, conv, creation, payloads, aliases, alias_rows, read, query, gen, pipe >>

NextPath == GetConversionPath

SpecPath == Init /\ [][NextPath]_vars

(* --------------------------- convert_lowest_cost ----------------------- *)
ConvContexts ==
    { ctx \in Contexts : ctx.local_memory_storage = "memory://m1" }

TargetStorages == { "memory://m1", "postgres://d1" }

\* the converters that raise during one call: none, or one of the registered
Failings == { {} } \cup { { k } : k \in DOMAIN get_converter_lookup }

ConvertLowestCost ==
    /\ conv.calls < MaxConversions
    /\ \E ctx \in ConvContexts, sdb \in 1..Len(sdbs), target_storage \in TargetStorages,
          target_format \in DataFormats, failing \in Failings :
           \E out \in { convert_lowest_cost(ctx, sdbs, sdb, target_storage, target_format,
                                            failing) } :
              /\ Len(out.rows) <= MaxSdbs
              /\ sdbs' = out.rows
              /\ conv' = [calls |-> conv.calls + 1, status |-> out.status,
                          error |-> out.error, ret |-> out.ret,
                          invoked |-> out.invoked, ctx |-> ctx, sdb |-> sdb,
                          target_storage |-> target_storage,
                          target_format |-> target_format, failing |-> failing,
                          path |-> convert_lowest_cost_path(ctx, sdbs, sdb, target_storage,
                                                            target_format),
                          rows_before |-> sdbs,
                          created |-> Len(out.rows) - Len(sdbs)]
    /\ UNCHANGED << blocks, call, req, upd, clock, id_counter, last_second, ids,
                    cast, found, creation, payloads, aliases, alias_rows, read, query, gen, pipe >>

NextConv == CreateBlock \/ ConvertLowestCost

SpecConv == Init /\ [][NextConv]_vars

(* -------------------------------- aliases ------------------------------ *)
\* StoredDataBlockMetadata.create_alias: the Alias row names the data block and
\* the StoredDataBlock; the storage manager binds the name, the last one wins
create_alias(rows, sdb, alias) ==
    [data_block_id |-> rows[sdb].data_block_id, stored_data_block_id |-> sdb]

CreateAlias ==
    \E sdb \in 1..Len(sdbs), alias \in AliasNames :
        /\ aliases' = [aliases EXCEPT ![alias] = create_alias(sdbs, sdb, alias)]
        /\ UNCHANGED << blocks, sdbs, call, req, upd, clock, id_counter, last_second, ids,
                        cast, found, conv, creation, payloads, alias_rows, read, query, gen, pipe >>

NextLineage == CreateBlock \/ GetOrCreate \/ CreateAlias

SpecLineage == Init /\ [][NextLineage]_vars

(* ------------------------------ Alias rows ----------------------------- *)
\* the Alias that create_alias builds and returns: a new row, whatever rows of
\* that name exist already; its id is given by autoincrement when it is added
Alias(rows, sdb, alias) ==
    [alias |-> alias, data_block_id |-> rows[sdb].data_block_id,
     stored_data_block_id |-> sdb]

\* the session the returned Alias is added to
add_alias(table, a) == Append(table, a)

\* the output step of a node with an output alias: create_alias on the
\* StoredDataBlock it produced, the Alias it returns is added to the session
CreateOutputAlias ==
    /\ Len(alias_rows) < MaxAliases
    /\ \E sdb \in 1..Len(sdbs), alias \in AliasNames :
          /\ aliases' = [aliases EXCEPT ![alias] = create_alias(sdbs, sdb, alias)]
          /\ alias_rows' = add_alias(alias_rows, Alias(sdbs, sdb, alias))
    /\ UNCHANGED << blocks, sdbs, call, req, upd, clock, id_counter, last_second, ids,
                    cast, found, conv, creation, payloads, read, query, gen, pipe >>

\* the rows of that name, by position in the table
rows_named(table, alias) == { i \in 1..Len(table) : table[i].alias = alias }

\* sess.query(Alias).filter(Alias.alias == alias).first(): no ORDER BY, so any
\* of the rows of that name may come first
LookupAlias ==
    \E alias \in AliasNames :
        /\ rows_named(alias_rows, alias) # {}
        /\ \E i \in rows_named(alias_rows, alias) :
              query' = [status |-> "returned", op |-> "lookup_alias", alias |-> alias,
                        row |-> alias_rows[i],
                        latest |-> alias_rows[CHOOSE j \in rows_named(alias_rows, alias) :
                                        \A k \in rows_named(alias_rows, alias) : k <= j],
                        calls |-> Cardinality(rows_named(alias_rows, alias))]
        /\ UNCHANGED << blocks, sdbs, call, req, upd, clock, id_counter, last_second, ids,
                        cast, found, conv, creation, payloads, aliases, alias_rows,
                        read, gen, pipe >>

NextAlias == CreateBlock \/ CreateOutputAlias \/ LookupAlias

SpecAlias == Init /\ [][NextAlias]_vars

(* ------------------- block creation with its failures ------------------ *)
\* a records object of no known memory format, next to the ones of Payloads
UnknownObject == [data_format |-> "None", record_count |-> 2, records_object |-> "records_a"]

CreationInputs == Payloads \cup { UnknownObject }

\* LocalMemoryDataRecords.from_records_object raises NotImplementedError when
\* get_data_format_of_object finds no format for the object
from_records_object_raises(records) == records.data_format \notin MemoryFormats

\* create_data_block_from_records with the steps that can raise: the making of
\* the LocalMemoryDataRecords before anything is added to the session, and the
\* storing of the records after block and StoredDataBlock were added to it
create_data_block_from_records_or_raise(local_storage, records, expected_schema, store_raises) ==
    IF from_records_object_raises(records)
    THEN [status |-> "raised", error |-> "NotImplementedError", inferred |-> FALSE,
          blocks |-> blocks, sdbs |-> sdbs, payloads |-> payloads]
    ELSE IF store_raises
    THEN [create_data_block_from_records(local_storage, records, expected_schema, "node")
            EXCEPT !.payloads = payloads]
         @@ [status |-> "raised", error |-> "StorageError"]
    ELSE create_data_block_from_records(local_storage, records, expected_schema, "node")
         @@ [status |-> "returned", error |-> "none"]

CreateDataBlock ==
    /\ Len(blocks) < MaxBlocks
    /\ Len(sdbs) < MaxSdbs
    /\ \E local_storage \in MemoryUrls, records \in CreationInputs,
          expected_schema \in DeclaredSchemas \cup { "Any" }, store_raises \in BOOLEAN :
           \E out \in { create_data_block_from_records_or_raise(local_storage, records,
                                                                expected_schema, store_raises) } :
              /\ blocks' = out.blocks
              /\ sdbs' = out.sdbs
              /\ payloads' = out.payloads
              /\ creation' = [status |-> out.status, error |-> out.error,
                              inferred |-> out.inferred,
                              local_storage |-> local_storage, records |-> records,
                              expected_schema |-> expected_schema,
                              store_raises |-> store_raises,
                              blocks_before |-> Len(blocks), sdbs_before |-> Len(sdbs),
                              payloads_before |-> Len(payloads)]
    /\ UNCHANGED << call, req, upd, clock, id_counter, last_second, ids,
                    cast, found, conv, aliases, alias_rows, read, query, gen, pipe >>

NextCreate == CreateDataBlock

SpecCreate == Init /\ [][NextCreate]_vars

(* --------------------------- reading a block back ---------------------- *)
NoRecords == [data_format |-> "None", records_object |-> "None"]

\* LocalMemoryStorageEngine(env, storage).get_local_memory_data_records(sdb).
\* records_object: the records stored for the StoredDataBlock in that memory
get_local_memory_data_records(stored, local_memory_storage, sdb) ==
    LET hits == { i \in 1..Len(stored) :
                    /\ stored[i].stored_data_block_id = sdb
                    /\ stored[i].storage_url = local_memory_storage }
    IN IF hits = {} THEN NoRecords
       ELSE LET ldr == stored[CHOOSE i \in hits : TRUE]
            IN [data_format |-> ldr.data_format, records_object |-> ldr.records_object]

\* the records of a data block, whatever the format they are held in
records_of(stored, rows, data_block) ==
    LET hits == { i \in 1..Len(stored) :
                    rows[stored[i].stored_data_block_id].data_block_id = data_block }
    IN IF hits = {} THEN [record_count |-> 0, records_object |-> "None"]
       ELSE stored[CHOOSE i \in hits : \A j \in hits : i <= j]

\* what the memory converters store: the records of the block, in the format
\* of each StoredDataBlock they added to a memory storage
RECURSIVE converted_records(_, _, _)
converted_records(stored, rows, i) ==
    IF i > Len(rows) THEN stored
    ELSE IF ~StartsWithMemory(rows[i].storage_url)
    THEN converted_records(stored, rows, i + 1)
    ELSE LET of_block == records_of(stored, rows, rows[i].data_block_id)
         IN converted_records(
                Append(stored, [stored_data_block_id |-> i,
                                storage_url |-> rows[i].storage_url,
                                data_format |-> rows[i].data_format,
                                record_count |-> of_block.record_count,
                                records_object |-> of_block.records_object]),
                rows, i + 1)

SchemaMappings == { "None", "a_to_b" }

\* fmt.apply_schema_mapping(schema_mapping, obj): the records with their fields renamed
apply_schema_mapping(schema_mapping, obj) ==
    [obj EXCEPT !.records_object = << schema_mapping, @ >>]

\* the lines of as_format after get_or_create_local_stored_data_block returned
records_of_sdb(ctx, stored, schema_mapping, got) ==
    IF got.status # "returned"
    THEN got @@ [obj |-> NoRecords, stored |-> stored]
    ELSE LET obj == get_local_memory_data_records(stored, ctx.local_memory_storage, got.ret)
         IN got @@ [obj |-> IF schema_mapping # "None"
                            THEN apply_schema_mapping(schema_mapping, obj)
                            ELSE obj,
                    stored |-> stored]

\* the StoredDataBlock is got or created, the converters store what they made
read_back(ctx, rows, stored, schema_mapping, got) ==
    records_of_sdb(ctx, converted_records(stored, got.rows, Len(rows) + 1),
                   schema_mapping, got)

\* mutant: the schema mapping is applied whether or not one was requested
as_format_always_mapping(ctx, rows, stored, data_block, fmt, schema_mapping) ==
    read_back(ctx, rows, stored, "a_to_b",
              get_or_create_local_stored_data_block(ctx, rows, data_block, fmt))

\* DataBlockManager(ctx, data_block, schema_mapping).as_format(fmt)
as_format(ctx, rows, stored, data_block, fmt, schema_mapping) ==
    read_back(ctx, rows, stored, schema_mapping,
              get_or_create_local_stored_data_block(ctx, rows, data_block, fmt))

\* a producing step handing over any of the records objects
CreateBlockOfRecords == CreateBlockWith({"None"}, PayloadsOf(RecordsObjects))

\* ManagedDataBlock.as_format(fmt), as_records_list() and as_dataframe()
AsFormat ==
    \E ctx \in Contexts, data_block \in 1..Len(blocks), fmt \in MemoryFormats,
       schema_mapping \in SchemaMappings :
        \E out \in { as_format(ctx, sdbs, payloads, data_block, fmt, schema_mapping) } :
           /\ Len(out.rows) <= MaxSdbs
           /\ sdbs' = out.rows
           /\ payloads' = out.stored
           /\ read' = [status |-> out.status, obj |-> out.obj, ctx |-> ctx,
                       data_block |-> data_block, fmt |-> fmt,
                       schema_mapping |-> schema_mapping, invoked |-> out.invoked,
                       kind |-> out.kind, ret |-> out.ret,
                       created |-> Len(out.rows) - Len(sdbs)]
           /\ UNCHANGED << blocks, call, req, upd, clock, id_counter, last_second, ids,
                           cast, found, conv, creation, aliases, alias_rows, query, gen, pipe >>

NextRead == CreateBlockOfRecords \/ AsFormat

SpecRead == Init /\ [][NextRead]_vars

(* ----------------------------- schema inference ------------------------ *)
\* raw objects handed to schema inference: a list or a DataFrame of some
\* records, a generator of batches of records, or an object that is none of them
Batches == UNION { [1..n -> 0..MaxRecords] : n \in 0..MaxBatches }
GeneratorKinds == { "DataFrameGenerator", "RecordsListGenerator", "Generator" }
RawObjects ==
    [kind : { "list", "DataFrame" }, batches : [1..1 -> 0..MaxRecords]]
    \cup [kind : GeneratorKinds, batches : Batches]
    \cup { [kind |-> "int", batches |-> << >>] }

PyNone == [kind |-> "NoneType", batches |-> << >>]

\* ReusableGenerator.get_one: the first batch, None when the generator yields none
get_one(obj) ==
    IF obj.batches = << >> THEN PyNone
    ELSE [kind |-> IF obj.kind = "DataFrameGenerator" THEN "DataFrame" ELSE "list",
          batches |-> << Head(obj.batches) >>]

\* what get_records_list_sample gives: a sample of n records, None, or a TypeError
TypeError == [status |-> "raised", error |-> "TypeError", is_none |-> FALSE, sample |-> 0]
sample_of(n) == [status |-> "returned", error |-> "none", is_none |-> FALSE, sample |-> n]
NoSample == [status |-> "returned", error |-> "none", is_none |-> TRUE, sample |-> 0]

\* get_records_list_sample, without its recursion: what it does with a list, a
\* DataFrame or anything that is no generator of this library
sample_of_batch(obj) ==
    IF obj.kind \in { "list", "DataFrame" } THEN sample_of(Head(obj.batches))
    ELSE TypeError

get_records_list_sample(obj) ==
    IF obj.kind \in { "list", "DataFrame" } THEN sample_of_batch(obj)
    ELSE IF obj.kind = "DataFrameGenerator" THEN sample_of_batch(get_one(obj))
    ELSE IF obj.kind = "RecordsListGenerator"
    THEN IF get_one(obj) = PyNone THEN NoSample ELSE sample_of(Head(obj.batches))
    ELSE TypeError

EmptyRecordsObject == "ValueError: Empty records object"

\* infer_otype_from_records_list on a sample: a schema of the fields seen, the
\* empty-payload error when the sample holds no record
infer_otype_from_records_list(n) ==
    IF n = 0 THEN [status |-> "raised", error |-> EmptyRecordsObject, schema |-> "None"]
    ELSE [status |-> "returned", error |-> "none", schema |-> "AutoSchema"]

\* the lines of infer_otype_from_records after the sample was taken
infer_from_sample(dl) ==
    IF dl.status = "raised"
    THEN [status |-> "raised", error |-> dl.error, schema |-> "None"]
    ELSE IF dl.is_none
    THEN [status |-> "raised", error |-> EmptyRecordsObject, schema |-> "None"]
    ELSE infer_otype_from_records_list(dl.sample)

\* RecordsListFormat.infer_otype_from_records and
\* DataFrameGeneratorFormat.infer_otype_from_records / infer_schema_from_records
infer_otype_from_records(records) == infer_from_sample(get_records_list_sample(records))

InferringFormats == { "RecordsListFormat", "DataFrameGeneratorFormat" }

InferSchema ==
    \E fmt \in InferringFormats, records \in RawObjects :
        \E out \in { infer_otype_from_records(records) } :
           /\ query' = [status |-> out.status, op |-> "infer", fmt |-> fmt,
                        records |-> records, error |-> out.error, schema |-> out.schema]
           /\ UNCHANGED << blocks, sdbs, call, req, upd, clock, id_counter, last_second,
                           ids, cast, found, conv, creation, payloads, aliases, alias_rows,
                           read, gen, pipe >>

NextInfer == InferSchema

SpecInfer == Init /\ [][NextInfer]_vars

(* ---------------------------- storage resolution ----------------------- *)
\* the configured storages select_storage may be given, in any order
ConfiguredStorages ==
    UNION { [1..n -> MemoryUrls \cup DatabaseUrls] : n \in 0..MaxStorages }

SelectStorage ==
    \E local_memory_storage \in MemoryUrls, storages \in ConfiguredStorages,
       storage_format \in StorageFormats :
        \E storage \in { select_storage(local_memory_storage, storages, storage_format) } :
           /\ query' = [status |-> IF storage = NoStorage THEN "raised" ELSE "returned",
                        op |-> "select_storage",
                        error |-> IF storage = NoStorage THEN "Exception" ELSE "none",
                        local_memory_storage |-> local_memory_storage,
                        storages |-> storages, storage_format |-> storage_format,
                        storage |-> storage]
           /\ UNCHANGED << blocks, sdbs, call, req, upd, clock, id_counter, last_second,
                           ids, cast, found, conv, creation, payloads, aliases, alias_rows,
                           read, gen, pipe >>

NextSelect == SelectStorage

SpecSelect == Init /\ [][NextSelect]_vars

(* ----------------------------- format detection ------------------------ *)
core_data_formats_precedence ==
    << "RecordsListFormat", "DataFrameFormat", "DatabaseCursorFormat",
       "DatabaseTableRefFormat", "RecordsListGeneratorFormat",
       "DataFrameGeneratorFormat", "DelimitedFilePointerFormat",
       "DelimitedFileFormat", "JsonListFileFormat", "DatabaseTableFormat" >>

\* the formats that cannot be concrete python objects
NonMemoryFormats == { "DelimitedFileFormat", "JsonListFileFormat", "DatabaseTableFormat" }

is_memory_format(m) == m \notin NonMemoryFormats

\* data_format_registry.all(): the registered formats, in the order of
\* registration
registry_all == core_data_formats_precedence

\* an object, as far as detection goes: the formats whose maybe_instance
\* answers True for it
DetectableObjects == SUBSET Range(core_data_formats_precedence)

maybe_instance(m, obj) == m \in obj

\* the loop collecting the memory formats that may be the object's
maybes_of(obj) ==
    SelectSeq(registry_all, LAMBDA m : is_memory_format(m) /\ maybe_instance(m, obj))

\* mutant: of several candidates the one registered last is returned
get_last_format_of_object(obj) ==
    IF Len(maybes_of(obj)) >= 1 THEN maybes_of(obj)[Len(maybes_of(obj))] ELSE "None"

get_data_format_of_object(obj) ==
    IF Len(maybes_of(obj)) = 1 THEN maybes_of(obj)[1]
    ELSE IF Len(maybes_of(obj)) > 1
    THEN SelectSeq(core_data_formats_precedence,
                   LAMBDA f : f \in Range(maybes_of(obj)))[1]
    ELSE "None"

GetDataFormatOfObject ==
    \E obj \in DetectableObjects :
        /\ query' = [status |-> "returned", op |-> "get_data_format_of_object",
                     obj |-> obj, data_format |-> get_data_format_of_object(obj)]
        /\ UNCHANGED << blocks, sdbs, call, req, upd, clock, id_counter, last_second,
                        ids, cast, found, conv, creation, payloads, aliases, alias_rows,
                        read, gen, pipe >>

NextDetect == GetDataFormatOfObject

SpecDetect == Init /\ [][NextDetect]_vars

(* --------------------------- static extract pipes ---------------------- *)
\* the early return of both pipes: nothing is returned, nothing is read, the
\* state is left as it is
already_extracted(state) ==
    [status |-> "returned", ret |-> "None", reads |-> {}, state |-> state]

\* as_records(...) of what the configuration names, after the state was emitted
emitted_records(state, reads) ==
    [status |-> "returned", ret |-> "DataRecordsObject", reads |-> reads,
     state |-> [state EXCEPT !.extracted = TRUE]]

\* mutant: the state value is not looked at, the records are emitted again
extract_dataframe_again(state) ==
    emitted_records(state, { "schema", "dataframe" })

extract_dataframe(state) ==
    IF state.extracted THEN already_extracted(state)
    ELSE emitted_records(state, { "schema", "dataframe" })

\* open(path) raises when there is no such file; the state value is emitted
\* after the file was opened
extract_csv(state, path_exists) ==
    IF state.extracted THEN already_extracted(state)
    ELSE IF ~path_exists
    THEN [status |-> "raised", ret |-> "None", reads |-> { "path" }, state |-> state]
    ELSE emitted_records(state, { "path", "file", "schema" })

StaticPipes == { "extract_dataframe", "extract_csv" }

\* one invocation of the pipe of the node, on the state the invocations before
\* left; path_exists tells whether the configured file is there at that time
run_pipe(name, state, path_exists) ==
    IF name = "extract_dataframe" THEN extract_dataframe(state)
    ELSE extract_csv(state, path_exists)

InvokePipe ==
    /\ Len(pipe.log) < MaxRuns
    /\ \E name \in StaticPipes, path_exists \in BOOLEAN :
          /\ pipe.name \in { "none", name }
          /\ name = "extract_dataframe" => path_exists
          /\ \E out \in { run_pipe(name, pipe.state, path_exists) } :
                pipe' = [name |-> name, state |-> out.state,
                         log |-> Append(pipe.log,
                                        [status |-> out.status, ret |-> out.ret,
                                         reads |-> out.reads,
                                         path_exists |-> path_exists,
                                         before |-> pipe.state, after |-> out.state])]
    /\ UNCHANGED << blocks, sdbs, call, req, upd, clock, id_counter, last_second, ids,
                    cast, found, conv, creation, payloads, aliases, alias_rows, read,
                    query, gen >>

NextPipe == InvokePipe

SpecPipe == Init /\ [][NextPipe]_vars

(* ======================================================================= *)
(* Claims about get_or_create_local_stored_data_block, under Spec          *)
(* ======================================================================= *)
Called == call.status # "none"
Returned == call.status = "returned"

\* the StoredDataBlocks of the requested data block that existed when the call began
BlockSdbsBefore == { i \in 1..call.before : sdbs[i].data_block_id = call.data_block }

TargetOfCall == StorageFormat("DICT_MEMORY", call.target_format)

\* the visibility rule: memory realizations only of the current runtime, durable
\* ones only on the configured storages
Visible(i) ==
    IF StartsWithMemory(sdbs[i].storage_url)
    THEN sdbs[i].storage_url = call.ctx.local_memory_storage
    ELSE sdbs[i].storage_url \in Range(call.ctx.storages)

PathOf(i) == get_conversion_path_for_sdb(sdbs[i], TargetOfCall, all_storages(call.ctx))

VisibleMatches == { i \in BlockSdbsBefore : Visible(i) /\ get_storage_format(sdbs[i]) = TargetOfCall }

VisibleWithPath == { i \in BlockSdbsBefore : Visible(i) /\ PathOf(i) # None }

InvokedSources == { call.invoked[k].in_sdb : k \in DOMAIN call.invoked }

\* C1 (idempotent caching): a call that repeats the previous successful call, with
\* the same context, data block and target format, returns the StoredDataBlock the
\* previous call returned, invokes no converter and creates no StoredDataBlock.
C1_IdempotentCaching ==
    call.again =>
        /\ Returned
        /\ call.ret = call.prev_ret
        /\ call.invoked = << >>
        /\ call.created = 0

\* the repeated call is served the StoredDataBlock an earlier conversion created
C1_Witness ==
    /\ call.again
    /\ Returned
    /\ \E i \in 1..(call.ret - 1) : sdbs[i].data_block_id = call.data_block

\* C2 (identity path is free): when a visible realization already is in the target
\* storage format, one of those is returned, no converter is invoked and no
\* StoredDataBlock is created, whatever else exists and in whatever order.
C2_IdentityPathFree ==
    (Called /\ VisibleMatches # {}) =>
        /\ Returned
        /\ call.ret \in VisibleMatches
        /\ call.invoked = << >>
        /\ call.created = 0

\* the match is found after another realization, one that could have been converted
C2_Witness ==
    /\ Returned
    /\ call.ret \in VisibleMatches
    /\ \E j \in VisibleWithPath : j < call.ret

\* C3 (cost minimality): when no visible realization matches, the conversion runs
\* from a visible realization whose path is the cheapest among the visible
\* realizations that have a path, the first discovered among equally cheap ones.
C3_CostMinimality ==
    (Called /\ VisibleMatches = {} /\ call.invoked # << >>) =>
        /\ call.in_sdb \in VisibleWithPath
        /\ \A j \in VisibleWithPath :
              /\ PathOf(call.in_sdb).total_cost <= PathOf(j).total_cost
              /\ PathOf(call.in_sdb).total_cost = PathOf(j).total_cost => call.in_sdb <= j

\* C4 (no-path failure): when no visible realization has a path to the target, the
\* call fails, no converter is invoked and no StoredDataBlock is created.
C4_NoPathFailure ==
    (Called /\ VisibleWithPath = {}) =>
        /\ call.status = "raised"
        /\ call.invoked = << >>
        /\ call.created = 0

\* a memory realization of another runtime
ForeignMemory(i) ==
    /\ StartsWithMemory(sdbs[i].storage_url)
    /\ sdbs[i].storage_url # call.ctx.local_memory_storage

\* C8 (visibility of memory realizations): a memory StoredDataBlock of another
\* runtime is never returned and never the input of a converter.
C8_ForeignMemoryUnused ==
    Called =>
        /\ Returned => ~ForeignMemory(call.ret)
        /\ \A i \in InvokedSources : ~ForeignMemory(i)

\* a conversion ran although another runtime holds the block in the target format
C8_Witness ==
    /\ Returned
    /\ call.invoked # << >>
    /\ \E i \in BlockSdbsBefore :
          ForeignMemory(i) /\ get_storage_format(sdbs[i]) = TargetOfCall

\* C9 (visibility of durable realizations): a non-memory StoredDataBlock on a
\* storage that is not configured in the context is never returned and never the
\* input of a converter.
C9_UnconfiguredDurableUnused ==
    Called =>
        /\ Returned => Visible(call.ret)
        /\ \A i \in InvokedSources :
              StartsWithMemory(sdbs[i].storage_url) \/ Visible(i)

NoDuplicateRows == \A i, j \in 1..Len(sdbs) : i # j => sdbs[i] # sdbs[j]

BothRanTheConversion ==
    /\ \A t \in Threads : req[t].pc = "done" /\ req[t].ran
    /\ req[1].data_block = req[2].data_block
    /\ req[1].target_format = req[2].target_format
    /\ req[1].seen = req[2].seen

\* C5 (concurrent realization requests): of two interleaved requests for the same
\* missing format of the same data block at most one runs the conversion, and no
\* two StoredDataBlocks have the same (data block, storage URL, data format).
C5_AtomicRealization == NoDuplicateRows /\ ~BothRanTheConversion

(* ======================================================================= *)
(* Claims about immutability, under SpecImm                                *)
(* ======================================================================= *)
RowOfUpdate ==
    IF upd.model = "DataBlockMetadata" THEN blocks[upd.id] ELSE sdbs[upd.id]

\* C6 (immutability): every attempted update of a field of a persisted DataBlock
\* or StoredDataBlock row is rejected, and the row keeps the values it had.
C6_Immutability ==
    upd.status # "none" =>
        /\ upd.status = "raised"
        /\ RowOfUpdate = upd.before

\* a StoredDataBlock was to be moved to another storage
C6_Witness ==
    /\ upd.status = "raised"
    /\ upd.model = "StoredDataBlockMetadata"
    /\ upd.field = "storage_url"
    /\ upd.value # upd.before.storage_url

(* ======================================================================= *)
(* Claims about timestamp_rand_key, under SpecIds                          *)
(* ======================================================================= *)
\* the key without "_" and the random suffix
KeyPrefix(key) == SubSeq(key, 1, Len(key) - 4)

\* C7 (monotonic ids): keys generated within one clock second are pairwise distinct
\* with lexicographically increasing timestamp+counter prefixes, and a key of a
\* later second is lexicographically greater than every key of an earlier second.
C7_MonotonicIds ==
    \A i, j \in 1..Len(ids) :
        i < j =>
            /\ ids[i].key # ids[j].key
            /\ ids[i].second = ids[j].second
                  => LexLess(KeyPrefix(ids[i].key), KeyPrefix(ids[j].key))
            /\ ids[i].second < ids[j].second => LexLess(ids[i].key, ids[j].key)

(* ======================================================================= *)
(* Claims about cast_to_realized_schema, under SpecCast                    *)
(* ======================================================================= *)
CastCalled == cast.status # "none"

NamesOf(schema) == { schema.fields[i].name : i \in DOMAIN schema.fields }

FieldNamed(schema, name) == CHOOSE f \in Range(schema.fields) : f.name = name

\* same field names, and the same type class for every field
StrictMatchCase ==
    /\ NamesOf(cast.inferred_schema) = NamesOf(cast.nominal_schema)
    /\ \A n \in NamesOf(cast.inferred_schema) :
          split_paren_first(FieldNamed(cast.inferred_schema, n).field_type)
              = split_paren_first(FieldNamed(cast.nominal_schema, n).field_type)

SubsetCase ==
    /\ ~StrictMatchCase
    /\ NamesOf(cast.nominal_schema) \subseteq NamesOf(cast.inferred_schema)

MissingFields == NamesOf(cast.nominal_schema) \ NamesOf(cast.inferred_schema)

\* C11: when inferred and nominal have the same field names and every field has
\* the same type class in both, cast_to_realized_schema returns nominal
\* unchanged, at every cast level
C11_StrictMatch ==
    (CastCalled /\ StrictMatchCase) =>
        /\ cast.status = "returned"
        /\ cast.schema = cast.nominal_schema

\* a strict match whose types differ in their parameters, at level NONE
C11_Witness ==
    /\ CastCalled /\ StrictMatchCase
    /\ cast.cast_level = NONE
    /\ cast.status = "returned"
    /\ Len(cast.inferred_schema.fields) = 2
    /\ \E n \in NamesOf(cast.inferred_schema) :
          FieldNamed(cast.inferred_schema, n).field_type
              # FieldNamed(cast.nominal_schema, n).field_type

\* C12: not a strict match, nominal's names a subset of inferred's, level NONE or
\* SOFT: the result has inferred's fields in inferred's order, each field also
\* named in nominal carrying nominal's definition, every other one inferred's
C12_SubsetSoft ==
    (CastCalled /\ SubsetCase /\ cast.cast_level \in { NONE, SOFT }) =>
        /\ cast.status = "returned"
        /\ Len(cast.schema.fields) = Len(cast.inferred_schema.fields)
        /\ \A i \in DOMAIN cast.inferred_schema.fields :
              /\ cast.schema.fields[i].name = cast.inferred_schema.fields[i].name
              /\ cast.schema.fields[i] =
                    IF cast.inferred_schema.fields[i].name \in NamesOf(cast.nominal_schema)
                    THEN FieldNamed(cast.nominal_schema, cast.inferred_schema.fields[i].name)
                    ELSE cast.inferred_schema.fields[i]

\* an extra inferred field is kept and a shared field changes its definition
C12_Witness ==
    /\ CastCalled /\ SubsetCase
    /\ cast.cast_level = SOFT
    /\ cast.status = "returned"
    /\ NamesOf(cast.inferred_schema) # NamesOf(cast.nominal_schema)
    /\ \E i \in DOMAIN cast.schema.fields :
          cast.schema.fields[i] # cast.inferred_schema.fields[i]

\* C13: not a strict match, nominal's names a subset of inferred's, level HARD:
\* the result is nominal exactly, without inferred's extra fields
C13_SubsetHard ==
    (CastCalled /\ SubsetCase /\ cast.cast_level = HARD) =>
        /\ cast.status = "returned"
        /\ cast.schema = cast.nominal_schema
        /\ NamesOf(cast.schema) \cap (NamesOf(cast.inferred_schema) \ NamesOf(cast.nominal_schema)) = {}

\* inferred has a field that nominal does not declare
C13_Witness ==
    /\ CastCalled /\ SubsetCase
    /\ cast.cast_level = HARD
    /\ cast.status = "returned"
    /\ NamesOf(cast.inferred_schema) \ NamesOf(cast.nominal_schema) # {}
    /\ cast.nominal_schema.fields # << >>

\* C14: when nominal has a field name that inferred lacks, the cast raises
\* SchemaTypeError at every level, returns no schema, and the error tells the
\* nominal fields that inferred lacks
C14_MissingFieldFailure ==
    (CastCalled /\ MissingFields # {}) =>
        /\ cast.status = "raised"
        /\ cast.schema = NoSchema
        /\ cast.error.type = "SchemaTypeError"
        /\ Range(cast.error.nominal_columns) \ Range(cast.error.inferred_columns) = MissingFields

\* the failure at level NONE, with a field the two schemas share
C14_Witness ==
    /\ CastCalled /\ MissingFields # {}
    /\ cast.cast_level = NONE
    /\ cast.status = "raised"
    /\ NamesOf(cast.inferred_schema) \cap NamesOf(cast.nominal_schema) # {}

(* ======================================================================= *)
(* Claims about the path lookup, under SpecPath                            *)
(* ======================================================================= *)
PathAsked == found.status = "called"
PathReturned == PathAsked /\ ~found.path.is_none

SourceOfLookup == StorageFormat(StorageTypeOf(found.sdb.storage_url), found.sdb.data_format)

AvailableTypes == { StorageTypeOf(u) : u \in Range(found.storages) }

\* every (converter, input format, output format) the registry offers
RegisteredEdges ==
    { e \in (DOMAIN get_converter_lookup) \X StorageFormats \X StorageFormats :
        /\ e[2] \in get_converter_lookup[e[1]].supported_input_formats
        /\ e[3] \in get_converter_lookup[e[1]].supported_output_formats }

RECURSIVE SumOfCosts(_)
SumOfCosts(chain) ==
    IF chain = << >> THEN 0
    ELSE get_converter_lookup[Head(chain)[1]].cost_level + SumOfCosts(Tail(chain))

\* the chains of registered converters on the given storage types that lead
\* from source to target
Chains(source, target, types) ==
    { chain \in UNION { [1..n -> RegisteredEdges] : n \in 0..MaxHops } :
        /\ \A i \in DOMAIN chain :
              /\ chain[i][2].storage_type \in types
              /\ chain[i][3].storage_type \in types
              /\ chain[i][2] = IF i = 1 THEN source ELSE chain[i - 1][3]
        /\ IF chain = << >> THEN source = target
           ELSE chain[Len(chain)][3] = target }

ChainsToTarget == Chains(SourceOfLookup, found.target_format, AvailableTypes)

PathAsChain ==
    [i \in DOMAIN found.path.conversions |->
        << found.path.conversions[i].converter,
           found.path.conversions[i].conversion[1],
           found.path.conversions[i].conversion[2] >>]

\* C15: the returned ConversionPath is a connected chain from source to target
\* over registered converters on available storage types, its total_cost is the
\* sum of its edges' cost levels and no such chain is cheaper; asking again
\* gives the same path
C15_LowestCostPath ==
    PathReturned =>
        /\ \A i \in DOMAIN PathAsChain : PathAsChain[i] \in RegisteredEdges
        /\ \A i \in DOMAIN PathAsChain :
              /\ PathAsChain[i][2] = IF i = 1 THEN SourceOfLookup ELSE PathAsChain[i - 1][3]
              /\ PathAsChain[i][2].storage_type \in AvailableTypes
              /\ PathAsChain[i][3].storage_type \in AvailableTypes
        /\ IF PathAsChain = << >> THEN SourceOfLookup = found.target_format
           ELSE PathAsChain[Len(PathAsChain)][3] = found.target_format
        /\ found.path.total_cost = SumOfCosts(PathAsChain)
        /\ \A chain \in ChainsToTarget : found.path.total_cost <= SumOfCosts(chain)
        /\ found.path = get_conversion_path_for_sdb(found.sdb, found.target_format, found.storages)

\* a path of two converters, memory to memory and then memory to database
C15_Witness ==
    /\ PathReturned
    /\ Len(found.path.conversions) = 2
    /\ found.path.total_cost = CHEAP + EXPENSIVE
    /\ Cardinality(ChainsToTarget) > 1

(* ======================================================================= *)
(* Claims about convert_lowest_cost and convert_sdb, under SpecConv        *)
(* ======================================================================= *)
ConvCalled == conv.status # "none"

SourceOfConv == get_storage_format(conv.rows_before[conv.sdb])

TargetOfConv == StorageFormat(StorageTypeOf(conv.target_storage), conv.target_format)

ChainsOfConv ==
    Chains(SourceOfConv, TargetOfConv,
           { StorageTypeOf(u) : u \in Range(all_storages(conv.ctx)) })

\* without the name of the error: no path is reported as such, the call
\* fails, no converter runs and no StoredDataBlock is made
NoPathFailsCleanly ==
    (ConvCalled /\ ChainsOfConv = {}) =>
        /\ conv.path.is_none
        /\ conv.path.conversions = << >>
        /\ conv.status = "raised"
        /\ conv.invoked = << >>
        /\ conv.created = 0

\* C16: when no chain of registered converters on the available storages leads
\* from source to target, the lookup reports no path as an outcome of its own,
\* and convert_lowest_cost fails with the NoConversionPath error, invokes no
\* converter and creates no StoredDataBlock
C16_NoConversionPath ==
    (ConvCalled /\ ChainsOfConv = {}) =>
        /\ NoPathFailsCleanly
        /\ conv.error = "NoConversionPath"

\* the edges of the path whose converter raises in this call
FailingEdges ==
    { i \in DOMAIN conv.path.conversions : conv.path.conversions[i].converter \in conv.failing }

C18_AppendOnlyLineage ==
    [][ /\ Len(blocks') >= Len(blocks)
        /\ Len(sdbs') >= Len(sdbs)
        /\ \A i \in DOMAIN blocks : blocks'[i] = blocks[i]
        /\ \A i \in DOMAIN sdbs : sdbs'[i] = sdbs[i] ]_vars

\* a conversion of two edges has run next to a second block and an alias
C18_Witness ==
    /\ call.status = "returned"
    /\ call.created = 2
    /\ Len(blocks) = 2
    /\ aliases["node_output"].stored_data_block_id = call.ret

(* ======================================================================= *)
(* Claims about create_data_block_from_records, under SpecCreate           *)
(* ======================================================================= *)
CreationCalled == creation.status # "none"

\* a call that returns has added one DataBlock, one StoredDataBlock of it on
\* the caller's storage in the format of the records, and the records under it
CreatedTogether ==
    creation.status = "returned" =>
        /\ Len(blocks) = creation.blocks_before + 1
        /\ Len(sdbs) = creation.sdbs_before + 1
        /\ sdbs[Len(sdbs)].data_block_id = Len(blocks)
        /\ sdbs[Len(sdbs)].storage_url = creation.local_storage
        /\ sdbs[Len(sdbs)].data_format = creation.records.data_format
        /\ Len(payloads) = creation.payloads_before + 1
        /\ payloads[Len(payloads)].stored_data_block_id = Len(sdbs)
        /\ payloads[Len(payloads)].data_format = creation.records.data_format
        /\ payloads[Len(payloads)].record_count = creation.records.record_count

\* a call that raises has left no DataBlock, StoredDataBlock or records behind
NothingLeftBehind ==
    creation.status = "raised" =>
        /\ Len(blocks) = creation.blocks_before
        /\ Len(sdbs) = creation.sdbs_before
        /\ Len(payloads) = creation.payloads_before

\* C19: create_data_block_from_records creates exactly one DataBlock and one
\* StoredDataBlock of it, on the caller's storage and in the format of the
\* records, with the records stored under it; when a step of it fails neither
\* row is left recorded
C19_AtomicBlockCreation == CreatedTogether /\ NothingLeftBehind

\* C20: the expected schema of the block is the declared one, or Any when none
\* is declared; the realized schema is inferred from the records exactly when
\* the declared schema is absent or Any, and is the declared schema otherwise
C20_SchemaChoice ==
    creation.status = "returned" =>
        /\ blocks[Len(blocks)].expected_schema_key =
              IF creation.expected_schema = "None" THEN "Any" ELSE creation.expected_schema
        /\ creation.inferred = (creation.expected_schema \in { "None", "Any" })
        /\ blocks[Len(blocks)].realized_schema_key =
              IF creation.expected_schema \in { "None", "Any" }
              THEN infer_schema_from_records(creation.records)
              ELSE creation.expected_schema

\* a second block, declared with a schema of its own, after one declared Any
C20_Witness ==
    /\ creation.status = "returned"
    /\ Len(blocks) = 2
    /\ creation.expected_schema = "TestSchema1"
    /\ ~creation.inferred
    /\ blocks[1].expected_schema_key = "Any"
    /\ blocks[1].realized_schema_key = "AutoSchema"

(* ======================================================================= *)
(* Claims about reading a block back, under SpecRead                       *)
(* ======================================================================= *)
ReadCalled == read.status # "none"

\* the StoredDataBlock the block was created with, and the records it was given
FirstSdbOf(data_block) ==
    CHOOSE i \in 1..Len(sdbs) :
        /\ sdbs[i].data_block_id = data_block
        /\ \A j \in 1..Len(sdbs) : sdbs[j].data_block_id = data_block => i <= j

OriginalPayload(data_block) ==
    LET first == FirstSdbOf(data_block)
        ldr == payloads[CHOOSE i \in 1..Len(payloads) : payloads[i].stored_data_block_id = first]
    IN [data_format |-> ldr.data_format, records_object |-> ldr.records_object]

\* the block is read in the runtime it was created in, in the format of its
\* payload, with no schema mapping
OwnFormatRead ==
    /\ ReadCalled
    /\ read.schema_mapping = "None"
    /\ sdbs[FirstSdbOf(read.data_block)].storage_url = read.ctx.local_memory_storage
    /\ sdbs[FirstSdbOf(read.data_block)].data_format = read.fmt

AliasLookedUp == query.status = "returned" /\ query.op = "lookup_alias"

\* a lookup by name gives the pair of the most recent create_alias of that name
LookupGivesLatest ==
    AliasLookedUp =>
        /\ query.row.data_block_id = query.latest.data_block_id
        /\ query.row.stored_data_block_id = query.latest.stored_data_block_id

\* what a name was bound to earlier is still there, and still the same pair
EarlierBindingsKept ==
    \A i \in 1..Len(alias_rows) :
        /\ alias_rows[i].stored_data_block_id \in 1..Len(sdbs)
        /\ alias_rows[i].data_block_id \in 1..Len(blocks)
        /\ sdbs[alias_rows[i].stored_data_block_id].data_block_id = alias_rows[i].data_block_id

\* C22: looking an alias name up gives the (DataBlock, StoredDataBlock) pair of
\* the most recent create_alias call of that name, and the blocks the name was
\* bound to earlier are neither changed nor removed.
C22_AliasLastWriteWins == LookupGivesLatest /\ EarlierBindingsKept

(* ======================================================================= *)
(* Claims about schema inference, under SpecInfer                          *)
(* ======================================================================= *)
Inferred == query.status # "none" /\ query.op = "infer"

\* the object is of a kind inference takes a sample of, and the sample has no
\* record: an empty list or DataFrame, a generator without a batch or with an
\* empty first batch
ZeroRecordSample ==
    /\ Inferred
    /\ query.records.kind \in { "list", "DataFrame", "DataFrameGenerator",
                                "RecordsListGenerator" }
    /\ \/ query.records.batches = << >>
       \/ Head(query.records.batches) = 0

\* the error inference raises for an object of no supported type
UnsupportedTypeError == infer_otype_from_records([kind |-> "int", batches |-> << >>]).error

\* C23: inference on a sample of zero records raises the empty-payload error,
\* which is not the error raised for an unsupported payload type, and returns
\* no schema.
C23_EmptyPayload ==
    ZeroRecordSample =>
        /\ query.status = "raised"
        /\ query.schema = "None"
        /\ query.error = EmptyRecordsObject
        /\ query.error # UnsupportedTypeError

(* ======================================================================= *)
(* Claims about the executor, under SpecConv                               *)
(* ======================================================================= *)
\* a path was found and none of its converters raises
PathRan == ConvCalled /\ ~conv.path.is_none /\ FailingEdges = {}

\* the StoredDataBlock the i-th edge of the call made
MadeByEdge(i) == Len(conv.rows_before) + i

\* C24: convert_sdb invokes the converter of each edge of the path once and in
\* path order, the first on the StoredDataBlock it was given and each later one
\* on what the edge before returned, each with the data format of its edge's
\* target, and returns what the last one returned; for an empty path it invokes
\* nothing and returns the StoredDataBlock it was given.
C24_ExecutorOrdering ==
    PathRan =>
        /\ conv.status = "returned"
        /\ Len(conv.invoked) = Len(conv.path.conversions)
        /\ \A i \in DOMAIN conv.invoked :
              /\ conv.invoked[i].converter = conv.path.conversions[i].converter
              /\ conv.invoked[i].data_format
                    = conv.path.conversions[i].conversion[2].data_format
              /\ conv.invoked[i].in_sdb = IF i = 1 THEN conv.sdb ELSE MadeByEdge(i - 1)
        /\ conv.ret = IF conv.path.conversions = << >> THEN conv.sdb
                      ELSE MadeByEdge(Len(conv.path.conversions))
        /\ conv.created = Len(conv.path.conversions)

\* a path of two edges has run to its end
C24_Witness ==
    /\ PathRan
    /\ Len(conv.path.conversions) = 2
    /\ conv.status = "returned"
    /\ conv.invoked[2].in_sdb # conv.sdb

(* ======================================================================= *)
(* Claims about select_storage, under SpecSelect                           *)
(* ======================================================================= *)
StorageSelected == query.status # "none" /\ query.op = "select_storage"

\* the positions of the configured storages of the type asked for
OfTypeAsked ==
    { i \in DOMAIN query.storages :
        StorageTypeOf(query.storages[i]) = query.storage_format.storage_type }

\* C25: for a local memory StorageType select_storage returns the caller's local
\* memory storage whatever memory storages are configured; for any other type
\* it returns the first configured storage of that type, and it fails with an
\* error when none is configured.
C25_StorageResolution ==
    StorageSelected =>
        IF query.storage_format.storage_type = "DICT_MEMORY"
        THEN /\ query.status = "returned"
             /\ query.storage = query.local_memory_storage
        ELSE IF OfTypeAsked # {}
        THEN /\ query.status = "returned"
             /\ query.storage = query.storages[MinOf(OfTypeAsked)]
        ELSE /\ query.status = "raised"
             /\ query.error = "Exception"

\* local memory asked for while another memory storage is configured first
C25_Witness ==
    /\ StorageSelected
    /\ query.storage_format.storage_type = "DICT_MEMORY"
    /\ query.storages # << >>
    /\ StartsWithMemory(query.storages[1])
    /\ query.storages[1] # query.local_memory_storage
    /\ query.storage = query.local_memory_storage

(* ======================================================================= *)
(* Claims about the identity path, under SpecPath                          *)
(* ======================================================================= *)
\* the StoredDataBlock is already in the StorageFormat asked for
AlreadyInTarget == PathAsked /\ SourceOfLookup = found.target_format

\* C26: for a StoredDataBlock already in the target StorageFormat
\* get_conversion_path_for_sdb returns the empty ConversionPath, no edges and
\* total cost 0, without building or asking the converter lookup, whatever
\* storages are available, none included.
C26_IdentityPathInFinder ==
    AlreadyInTarget =>
        /\ ~found.path.is_none
        /\ found.path.conversions = << >>
        /\ found.path.total_cost = 0
        /\ ~found.consulted

\* no storage is available and no converter knows the format
C26_Witness ==
    /\ AlreadyInTarget
    /\ found.storages = << >>
    /\ found.target_format \notin RegisteredFormats
    /\ found.path.conversions = << >>
    /\ ~found.path.is_none

(* ======================================================================= *)
(* Claims about format detection, under SpecDetect                         *)
(* ======================================================================= *)
FormatAsked == query.status # "none" /\ query.op = "get_data_format_of_object"

\* the positions in the precedence list of the memory formats accepting the object
Accepting ==
    { i \in DOMAIN core_data_formats_precedence :
        /\ core_data_formats_precedence[i] \in query.obj
        /\ core_data_formats_precedence[i] \notin NonMemoryFormats }

\* C27: get_data_format_of_object returns memory formats only; the one format
\* whose maybe_instance accepts the object when there is exactly one, the
\* accepting format that comes first in the precedence list when there are
\* several, and nothing when there is none.
C27_FormatPrecedence ==
    FormatAsked =>
        /\ query.data_format \notin NonMemoryFormats
        /\ Accepting = {} => query.data_format = "None"
        /\ Accepting # {} =>
              query.data_format = core_data_formats_precedence[MinOf(Accepting)]

\* both generator formats accept the object, and so does a file format
C27_Witness ==
    /\ FormatAsked
    /\ query.obj = { "RecordsListGeneratorFormat", "DataFrameGeneratorFormat",
                     "DelimitedFileFormat" }
    /\ query.data_format = "RecordsListGeneratorFormat"

(* ======================================================================= *)
(* Claims about cast level NONE, under SpecCast                            *)
(* ======================================================================= *)
\* nominal has fields inferred lacks, and the cast is asked for at level NONE
MissingAtNone == CastCalled /\ MissingFields # {} /\ cast.cast_level = NONE

\* C28: at cast level NONE cast_to_realized_schema makes no missing-field
\* check: when nominal has fields that inferred lacks it raises nothing and
\* returns inferred unchanged.
C28_NoneSkipsEnforcement ==
    MissingAtNone =>
        /\ cast.status = "returned"
        /\ cast.error = NoError
        /\ cast.schema = cast.inferred_schema

(* ======================================================================= *)
(* Claims about interleaved id generation, under SpecGen                   *)
(* ======================================================================= *)
\* two threads were inside timestamp_rand_key in the same clock second and
\* both have returned
BothReturnedInOneSecond ==
    /\ \A t \in Threads : gen[t].pc = "done"
    /\ \A t, u \in Threads : gen[t].curr_second = gen[u].curr_second

DistinctPrefixes ==
    BothReturnedInOneSecond =>
        \A t, u \in Threads : t # u => KeyPrefix(gen[t].key) # KeyPrefix(gen[u].key)

\* no caller that read an older second reset the counter after another caller
\* had moved last_second on
NoResetBehind == \A t \in Threads : ~gen[t].reset_behind

\* C29: two threads of one process inside timestamp_rand_key in the same clock
\* second, their reads and writes of id_counter and last_second interleaved in
\* any order, never return keys with the same timestamp+counter prefix, and the
\* counter is never reset to zero by a caller that read an older second after
\* another caller moved last_second on.
C29_InterleavedIds == DistinctPrefixes /\ NoResetBehind

(* ======================================================================= *)
(* Claims about the static extract pipes, under SpecPipe                   *)
(* ======================================================================= *)
\* an invocation that returns nothing, reads no input and leaves the state alone
ReturnsNothing(run) ==
    /\ run.status = "returned"
    /\ run.ret = "None"
    /\ run.reads = {}
    /\ run.after = run.before

\* an invocation that returns a records object and sets extracted
EmitsRecords(run) ==
    /\ run.status = "returned"
    /\ run.ret = "DataRecordsObject"
    /\ run.after.extracted

\* an invocation that fails before anything was emitted
FailsBeforeEmitting(run) ==
    /\ run.status = "raised"
    /\ run.ret = "None"
    /\ run.after = run.before
    /\ ~run.after.extracted

\* C30 as stated: of the invocations sharing one node state exactly the first
\* returns a records object and sets extracted; every later one returns
\* nothing, reads no input and leaves the state unchanged.
C30_FirstInvocationEmits ==
    \A i \in DOMAIN pipe.log :
        IF i = 1 THEN EmitsRecords(pipe.log[i]) ELSE ReturnsNothing(pipe.log[i])

\* C30, amended: exactly one invocation returns a records object and sets
\* extracted, namely the first that does not fail; the ones before it (only
\* extract_csv, when open(path) raises) fail with the state untouched, the ones
\* after it return nothing, read no input and leave the state unchanged.
C30_EmitOnce ==
    \A i \in DOMAIN pipe.log :
        IF \A j \in 1..(i - 1) : pipe.log[j].status = "raised"
        THEN \/ EmitsRecords(pipe.log[i])
             \/ /\ FailsBeforeEmitting(pipe.log[i])
                /\ pipe.name = "extract_csv"
                /\ ~pipe.log[i].path_exists
        ELSE ReturnsNothing(pipe.log[i])

\* extract_csv failed once, then emitted, then was invoked again
C30_Witness ==
    /\ pipe.name = "extract_csv"
    /\ Len(pipe.log) = 3
    /\ FailsBeforeEmitting(pipe.log[1])
    /\ EmitsRecords(pipe.log[2])
    /\ ReturnsNothing(pipe.log[3])
    /\ pipe.log[3].path_exists

====
